---- MODULE Spec2Model ----
(***************************************************************************)
(* GA4 Month-on-Month Report Generator (src/insights_v1_app.py).           *)
(*                                                                         *)
(* The Streamlit script is run once per widget interaction of a browser    *)
(* session.  A run with the button pressed validates the two inputs,       *)
(* writes the uploaded key to the fixed path temp_key.json, reads it back  *)
(* to build the query client, queries the remote once per month window,    *)
(* builds the spreadsheet and offers it for download.                      *)
(*                                                                         *)
(* Texts are sequences of tokens; a metric value is a sequence of          *)
(* one-character strings, parsed as int() parses it.  A percentage is an   *)
(* exact rational [num, den] (den > 0); the binary rounding of the float   *)
(* division is not modelled.                                               *)
(***************************************************************************)
EXTENDS Integers, Sequences, FiniteSets, TLC

VARIABLES
    session,    \* per browser session: the script run's inputs, locals and UI
    temp_key,   \* content of the file temp_key.json, shared by all sessions
    connected,  \* the browser sessions that exist
    remote      \* the remote stub: "arbitrary" or "accounts"

vars == <<session, temp_key, connected, remote>>

Sessions == {1, 2}

None == "None"
NoFile == "NoFile"

\* ---------------------------------------------------------------- bounds
\* Largest table handed to generate_excel in SpecExcel.
MaxRecords == 3

\* ------------------------------------------------------- months (l.18-28)
months ==
    << [month |-> "Apr", start_date |-> "2024-04-01", end_date |-> "2024-04-30"],
       [month |-> "May", start_date |-> "2024-05-01", end_date |-> "2024-05-31"],
       [month |-> "Jun", start_date |-> "2024-06-01", end_date |-> "2024-06-30"],
       [month |-> "Jul", start_date |-> "2024-07-01", end_date |-> "2024-07-31"],
       [month |-> "Aug", start_date |-> "2024-08-01", end_date |-> "2024-08-31"],
       [month |-> "Sep", start_date |-> "2024-09-01", end_date |-> "2024-09-30"],
       [month |-> "Oct", start_date |-> "2024-10-01", end_date |-> "2024-10-31"],
       [month |-> "Nov", start_date |-> "2024-11-01", end_date |-> "2024-11-30"],
       [month |-> "Dec", start_date |-> "2024-12-01", end_date |-> "2024-12-31"] >>

\* DateRange(start_date=..., end_date=...) of one window (l.56).
DateRange(m) == <<m.start_date, m.end_date>>

\* ------------------------------------------------------ int() (l.64-66)
Digits == {"0", "1", "2", "3", "4", "5", "6", "7", "8", "9"}

DigitValue(c) ==
    CASE c = "0" -> 0 [] c = "1" -> 1 [] c = "2" -> 2 [] c = "3" -> 3
      [] c = "4" -> 4 [] c = "5" -> 5 [] c = "6" -> 6 [] c = "7" -> 7
      [] c = "8" -> 8 [] c = "9" -> 9

RECURSIVE DecimalValue(_)
DecimalValue(ds) ==
    IF ds = <<>> THEN 0
    ELSE 10 * DecimalValue(SubSeq(ds, 1, Len(ds) - 1)) + DigitValue(ds[Len(ds)])

\* int(text): an optional sign, then one or more decimal digits; anything
\* else raises ValueError.
IntParse(text) ==
    LET signed == text # <<>> /\ text[1] \in {"-", "+"}
        ds     == IF signed THEN Tail(text) ELSE text
    IN  IF ds # <<>> /\ \A i \in 1..Len(ds) : ds[i] \in Digits
        THEN [ok |-> TRUE,
              value |-> IF signed /\ text[1] = "-" THEN 0 - DecimalValue(ds)
                        ELSE DecimalValue(ds)]
        ELSE [ok |-> FALSE, value |-> 0]

\* ------------------------------------------- the remote query service
\* One returned row: the three metric values, as text-encoded integers.
RowA   == << <<"1", "0">>, <<"8">>, <<"5">> >>
RowB   == << <<"2", "0">>, <<"1", "5">>, <<"9">> >>
\* A malformed row: its second metric value is not a number.
RowBad == << <<"7">>, <<"x">>, <<"3">> >>

\* The row lists a remote stub may return for one month.
Responses == { <<>>, <<RowA, RowB>>, <<RowA, RowBad>> }

CallError == [kind |-> "error", rows |-> <<>>]
Reply(rows) == [kind |-> "rows", rows |-> rows]

\* What client.run_report may do for one month under an arbitrary stub:
\* raise, or return one of the row lists.
ArbitraryOutcomes == {CallError} \cup {Reply(r) : r \in Responses}

\* A fixed stub in which the answer depends on the account the client's
\* credential belongs to.
AccountOutcome(cred, m) ==
    IF cred = "credA"
    THEN (IF m = 3 THEN CallError ELSE Reply(<<RowA, RowB>>))
    ELSE (IF m = 6 THEN Reply(<<RowA, RowBad>>) ELSE Reply(<<>>))

RemoteOutcomes(mode, cred, m) ==
    IF mode = "arbitrary" THEN ArbitraryOutcomes ELSE {AccountOutcome(cred, m)}

\* The environment's side of one month: the call raised, or a returned row
\* carries a value int() rejects.
OutcomeFails(outcome) ==
    \/ outcome.kind = "error"
    \/ \E i \in 1..Len(outcome.rows) :
          \E j \in 1..3 : ~IntParse(outcome.rows[i][j]).ok

\* --------------------------------------- fetch_ga4_data, one month (l.55-71)
\* The accumulators of the previous month are kept.
KeepTotals(totals) == totals

\* l.59-61: the three accumulators are set to 0 before the rows are read.
ResetTotals(totals) == <<0, 0, 0>>

\* l.63-66: the rows are summed one metric at a time; the first value that
\* int() rejects raises, leaving the additions made so far in place.
RECURSIVE SumRows(_, _, _)
SumRows(rows, i, totals) ==
    IF i > Len(rows) THEN [raised |-> FALSE, totals |-> totals]
    ELSE LET v0 == IntParse(rows[i][1])
             v1 == IntParse(rows[i][2])
             v2 == IntParse(rows[i][3])
             t0 == <<totals[1] + v0.value, totals[2], totals[3]>>
             t1 == <<t0[1], t0[2] + v1.value, t0[3]>>
             t2 == <<t1[1], t1[2], t1[3] + v2.value>>
         IN  IF ~v0.ok THEN [raised |-> TRUE, totals |-> totals]
             ELSE IF ~v1.ok THEN [raised |-> TRUE, totals |-> t0]
             ELSE IF ~v2.ok THEN [raised |-> TRUE, totals |-> t1]
             ELSE SumRows(rows, i + 1, t2)

\* The except clause appends what was summed before the exception.
MonthIterationKeepsPartial(m, outcome, all_data, totals) ==
    IF outcome.kind = "error"
    THEN [all_data |-> all_data, totals |-> totals, raised |-> TRUE]
    ELSE LET r == SumRows(outcome.rows, 1, <<0, 0, 0>>)
         IN  [all_data |-> Append(all_data,
                                  <<m.month, r.totals[1], r.totals[2], r.totals[3]>>),
              totals |-> r.totals, raised |-> r.raised]

\* l.55-71: one pass of the loop body for window m.  The result carries the
\* table, the accumulators and whether the except clause ran.
MonthIteration(m, outcome, all_data, totals) ==
    IF outcome.kind = "error"
    THEN [all_data |-> all_data, totals |-> totals, raised |-> TRUE]
    ELSE LET r == SumRows(outcome.rows, 1, ResetTotals(totals))
         IN  IF r.raised
             THEN [all_data |-> all_data, totals |-> r.totals, raised |-> TRUE]
             ELSE [all_data |-> Append(all_data,
                                       <<m.month, r.totals[1], r.totals[2], r.totals[3]>>),
                   totals |-> r.totals, raised |-> FALSE]

\* ----------------------------------------------- generate_excel (l.76-144)
headers == <<"Month", "Sessions", "Engaged Sessions", "Users">>

header_format         == [name |-> "header", bold |-> TRUE, font_color |-> "white"]
content_format        == [name |-> "content", bold |-> FALSE, font_color |-> "default"]
insight_header_format == [name |-> "insight_header", bold |-> TRUE, font_color |-> "black"]
improvement_format    == [name |-> "improvement", bold |-> TRUE, font_color |-> "darkgreen"]
drop_format           == [name |-> "drop", bold |-> TRUE, font_color |-> "red"]

\* worksheet.write(row, col, value, format): the cell at (row, col) is set,
\* replacing what an earlier write put there.
Write(cells, row, col, value, format) ==
    (<<row, col>> :> [rich |-> FALSE, value |-> value, format |-> format]) @@ cells

\* l.89-90
WriteHeaders(cells) ==
    [p \in {<<0, c>> : c \in 0..(Len(headers) - 1)} |->
        [rich |-> FALSE, value |-> headers[p[2] + 1], format |-> header_format]] @@ cells

\* enumerate(data) without start=1: the first record lands on the header row.
WriteDataFromZero(cells, data) ==
    [p \in {<<r, c>> : r \in 0..(Len(data) - 1), c \in 0..(Len(headers) - 1)} |->
        [rich |-> FALSE, value |-> data[p[1] + 1][p[2] + 1], format |-> content_format]] @@ cells

\* l.93-95: enumerate(data, start=1)
WriteData(cells, data) ==
    [p \in {<<r, c>> : r \in 1..Len(data), c \in 0..(Len(headers) - 1)} |->
        [rich |-> FALSE, value |-> data[p[1]][p[2] + 1], format |-> content_format]] @@ cells

\* The insight block starts one row higher.
insights_row_start_above(data) == Len(data) + 1

\* l.103
insights_row_start(data) == Len(data) + 2

\* A rational num/den with den > 0.
Rat(num, den) == IF den < 0 THEN [num |-> 0 - num, den |-> 0 - den]
                 ELSE [num |-> num, den |-> den]
Abs(n) == IF n < 0 THEN 0 - n ELSE n

\* l.112: (current - previous) / previous * 100 if previous != 0 else 0.
\* A division by zero raises ZeroDivisionError.
PercentageChange(previous_value, current_value) ==
    IF previous_value # 0
    THEN [raised |-> FALSE,
          pct |-> Rat((current_value - previous_value) * 100, previous_value)]
    ELSE [raised |-> FALSE, pct |-> Rat(0, 1)]

\* A change of zero counts as an improvement.
ChangeTypeNonNegative(pct) == IF pct.num >= 0 THEN "improvement" ELSE "drop"

\* l.114
ChangeType(pct) == IF pct.num > 0 THEN "improvement" ELSE "drop"

\* l.115: f"{abs(x):.2f}": |x| rounded to hundredths (ties to even), given
\* as <<integer part, hundredths>>.
Format2f(pct) ==
    LET n == Abs(pct.num) * 100
        q == n \div pct.den
        r == n % pct.den
        h == IF 2 * r > pct.den THEN q + 1
             ELSE IF 2 * r = pct.den THEN q + (q % 2)
             ELSE q
    IN  <<h \div 100, h % 100>>

\* l.115
PercentageText(pct) == <<ChangeType(pct), " of ", Format2f(pct), "%">>

\* l.123: the format of the percentage phrase.
PhraseFormat(change_type) ==
    IF change_type = "improvement" THEN improvement_format ELSE drop_format

\* l.108-126: the insight of metric column i (1..3) of a table with at least
\* two records: the row it is written to and the rich string cell.
InsightLine(data, i) ==
    LET last_month        == data[Len(data)][1]
        second_last_month == data[Len(data) - 1][1]
        previous_month    == data[Len(data) - 1]
        current_month     == data[Len(data)]
        metric_name       == headers[i + 1]
        change            == PercentageChange(previous_month[i + 1], current_month[i + 1])
        percentage_text   == PercentageText(change.pct)
        lead              == <<"We have observed a ">>
        insight           == lead \o percentage_text \o
                             <<" in ", metric_name, " in ", last_month,
                               " compared to ", second_last_month, ".">>
        rest              == SubSeq(insight, Len(lead \o percentage_text) + 1, Len(insight))
    IN  [raised |-> change.raised,
         row    |-> insights_row_start(data) + i - 1,
         pct    |-> change.pct,
         cell   |-> [rich   |-> TRUE,
                     value  |-> << [format |-> "default", text |-> lead],
                                   [format |-> PhraseFormat(ChangeType(change.pct)),
                                    text   |-> percentage_text],
                                   [format |-> "default", text |-> rest] >>,
                     format |-> content_format]]

\* l.120-126: worksheet.write_rich_string(row, 0, ...)
WriteRich(cells, line) == (<<line.row, 0>> :> line.cell) @@ cells

\* The insights need three records.
HasInsightsFromThree(data) == Len(data) >= 3

\* l.98
HasInsights(data) == Len(data) >= 2

\* l.98-126
WriteInsights(cells, data) ==
    IF HasInsights(data)
    THEN LET last_month        == data[Len(data)][1]
             second_last_month == data[Len(data) - 1][1]
             title == <<"Highlights - ", last_month, "'24 vs ", second_last_month, "'24">>
             c0    == Write(cells, insights_row_start(data) - 1, 0, title,
                            insight_header_format)
             lines == [i \in 1..(Len(headers) - 1) |-> InsightLine(data, i)]
         IN  IF \E i \in DOMAIN lines : lines[i].raised
             THEN [raised |-> TRUE, cells |-> c0]
             ELSE [raised |-> FALSE,
                   cells  |-> WriteRich(WriteRich(WriteRich(c0, lines[1]), lines[2]),
                                        lines[3])]
    ELSE [raised |-> FALSE, cells |-> cells]

\* l.129-139: one 3-colour scale per metric column over the A1 range
\* "<col>2:<col><len(data)+1>".  The range is kept as zero-based rows and
\* columns; the library orders the two rows of a range given backwards.
ConditionalFormats(data) ==
    { LET first_row == 1
          last_row  == Len(data)
      IN  [type |-> "3_color_scale", col |-> col,
           first_row |-> IF first_row > last_row THEN last_row ELSE first_row,
           last_row  |-> IF first_row > last_row THEN first_row ELSE last_row]
      : col \in 1..(Len(headers) - 1) }

\* l.76-144: the finished sheet, or the exception of the insights pass.
generate_excel(data) ==
    LET c1  == WriteHeaders(<<>>)
        c2  == WriteData(c1, data)
        ins == WriteInsights(c2, data)
    IN  [raised |-> ins.raised,
         sheet  |-> [name    |-> "GA4 Data",
                     cells   |-> ins.cells,
                     cond    |-> ConditionalFormats(data),
                     columns |-> [first |-> 0, last |-> Len(headers) - 1, width |-> 15]]]

\* ------------------------------------------------- main logic (l.147-172)
\* What the sidebar can hold: no upload, an upload that is no service
\* account key, or the key of the session's user (each of the two users
\* has an account of their own); an empty property id, one of white space
\* only (a non-empty string, which `not property_id` lets through) or a
\* filled one.
KeyOf(s)    == IF s = 1 THEN "credA" ELSE "credB"
Uploads(s)  == {None, "not_a_key", KeyOf(s)}
PropertyIds == {"", " ", "123456"}

\* Credentials.from_service_account_file accepts the content (l.32).
ValidKey(content) == content \in {"credA", "credB"}

NoResponse == [kind |-> "none", rows |-> <<>>]

\* The script's state at the top of a run (l.13-15): the widget values, and
\* nothing computed or shown yet.
FreshRun(btn, kf, pid) ==
    [pc              |-> "idle",
     generate_button |-> btn,
     key_file        |-> kf,
     property_id     |-> pid,
     branch          |-> "none",
     wrote           |-> FALSE,
     client          |-> None,
     requests        |-> <<>>,
     month_idx       |-> 1,
     all_data        |-> <<>>,
     response        |-> NoResponse,
     totals          |-> <<0, 0, 0>>,
     failed          |-> {},
     ui              |-> <<>>,
     excel_file      |-> <<>>,
     download        |-> <<>>]

\* The elif arm is missing.
MainBranchNoPropertyCheck(generate_button, key_file, property_id) ==
    IF ~generate_button THEN "none"
    ELSE IF key_file = None THEN "no_key"
    ELSE "proceed"

\* l.147-152: which arm of the if / elif / else a run takes.
MainBranch(generate_button, key_file, property_id) ==
    IF ~generate_button THEN "none"
    ELSE IF key_file = None THEN "no_key"
    ELSE IF property_id = "" THEN "no_property"
    ELSE "proceed"

KeyErrorMessage      == <<"error", "Please upload a valid service account key file.">>
PropertyErrorMessage == <<"error", "Please enter a valid GA4 Property ID.">>
RunErrorMessage      == <<"error", "An error occurred: ">>
SuccessMessage       == <<"success", "Report generated successfully!">>
FetchErrorMessage(m) == <<"error", "Error fetching data for ", m.month, " 2024: ">>

\* A run of the script not started by the button (l.147 false): nothing of
\* the main logic runs.
RunWithoutSubmit(s) ==
    /\ session[s].pc = "idle"
    /\ \E kf \in Uploads(s), pid \in PropertyIds :
          /\ MainBranch(FALSE, kf, pid) = "none"
          /\ session' = [session EXCEPT ![s] = FreshRun(FALSE, kf, pid)]
    /\ UNCHANGED <<temp_key, connected, remote>>

\* l.148-149
SubmitMissingKey(s) ==
    /\ session[s].pc = "idle"
    /\ \E kf \in Uploads(s), pid \in PropertyIds :
          /\ MainBranch(TRUE, kf, pid) = "no_key"
          /\ session' = [session EXCEPT ![s] =
                 [FreshRun(TRUE, kf, pid) EXCEPT !.branch = "no_key",
                                                 !.ui = <<KeyErrorMessage>>]]
    /\ UNCHANGED <<temp_key, connected, remote>>

\* l.150-151
SubmitMissingProperty(s) ==
    /\ session[s].pc = "idle"
    /\ \E kf \in Uploads(s), pid \in PropertyIds :
          /\ MainBranch(TRUE, kf, pid) = "no_property"
          /\ session' = [session EXCEPT ![s] =
                 [FreshRun(TRUE, kf, pid) EXCEPT !.branch = "no_property",
                                                 !.ui = <<PropertyErrorMessage>>]]
    /\ UNCHANGED <<temp_key, connected, remote>>

\* l.152-156: the else arm is entered.
SubmitProceed(s) ==
    /\ session[s].pc = "idle"
    /\ \E kf \in Uploads(s), pid \in PropertyIds :
          /\ MainBranch(TRUE, kf, pid) = "proceed"
          /\ session' = [session EXCEPT ![s] =
                 [FreshRun(TRUE, kf, pid) EXCEPT !.branch = "proceed", !.pc = "open"]]
    /\ UNCHANGED <<temp_key, connected, remote>>

\* The except clause shows nothing.
RunFailedSilently(r) == [r EXCEPT !.pc = "idle"]

\* l.171-172: the except clause of the run.
RunFailed(r) == [r EXCEPT !.pc = "idle", !.ui = Append(@, RunErrorMessage)]

\* l.157: open(key_file_path, "wb") creates or truncates the file.
OpenKeyFile(s) ==
    /\ session[s].pc = "open"
    /\ temp_key' = ""
    /\ session' = [session EXCEPT ![s].pc = "write", ![s].wrote = TRUE]
    /\ UNCHANGED <<connected, remote>>

\* l.157: open raises (OSError).
OpenKeyFileRaises(s) ==
    /\ session[s].pc = "open"
    /\ session' = [session EXCEPT ![s] = RunFailed(@)]
    /\ UNCHANGED <<temp_key, connected, remote>>

\* l.158: f.write(key_file.read()), and the file is closed.
WriteKeyFile(s) ==
    /\ session[s].pc = "write"
    /\ temp_key' = session[s].key_file
    /\ session' = [session EXCEPT ![s].pc = "client"]
    /\ UNCHANGED <<connected, remote>>

\* l.158: the write raises (OSError); the file stays as open left it.
WriteKeyFileRaises(s) ==
    /\ session[s].pc = "write"
    /\ session' = [session EXCEPT ![s] = RunFailed(@)]
    /\ UNCHANGED <<temp_key, connected, remote>>

\* l.32-33, 53: the file at key_file_path is read back and the client built.
\* The client holds the credential of whatever the file holds now.
ClientCredential(file_content, key_file) == file_content

ConstructClient(s) ==
    /\ session[s].pc = "client"
    /\ ValidKey(temp_key)
    /\ session' = [session EXCEPT
                      ![s].pc = "loop",
                      ![s].client = ClientCredential(temp_key, session[s].key_file),
                      ![s].all_data = <<>>,
                      ![s].month_idx = 1]
    /\ UNCHANGED <<temp_key, connected, remote>>

\* l.32: the file holds no service account key (ValueError).
ConstructClientRaises(s) ==
    /\ session[s].pc = "client"
    /\ ~ValidKey(temp_key)
    /\ session' = [session EXCEPT ![s] = RunFailed(@)]
    /\ UNCHANGED <<temp_key, connected, remote>>

\* The except clause leaves the loop.
NextMonthBreak(month_idx, raised) ==
    IF raised THEN Len(months) + 1 ELSE month_idx + 1

\* l.54, 70-71: the except clause does not leave the loop: the for
\* statement moves on to the next window whether or not the pass raised.
NextMonth(month_idx, raised) == month_idx + 1

\* l.54-71: one month of the loop: the request with this window's date
\* range is sent, and the reply summed or the error reported.
FetchMonth(s) ==
    /\ session[s].pc = "loop"
    /\ session[s].month_idx <= Len(months)
    /\ LET r == session[s]
           m == months[r.month_idx]
       IN  \E outcome \in RemoteOutcomes(remote, r.client, r.month_idx) :
              LET it == MonthIteration(m, outcome, r.all_data, r.totals)
              IN  session' = [session EXCEPT ![s] =
                     [r EXCEPT !.requests  = Append(@, DateRange(m)),
                               !.response  = IF outcome.kind = "error" THEN r.response
                                             ELSE outcome,
                               !.all_data  = it.all_data,
                               !.totals    = it.totals,
                               !.failed    = IF OutcomeFails(outcome)
                                             THEN @ \cup {m.month} ELSE @,
                               !.ui        = IF it.raised
                                             THEN Append(@, FetchErrorMessage(m)) ELSE @,
                               !.month_idx = NextMonth(@, it.raised)]]
    /\ UNCHANGED <<temp_key, connected, remote>>

\* l.73, 162-170: the loop is over; the report is built and offered.
BuildReport(s) ==
    /\ session[s].pc = "loop"
    /\ session[s].month_idx > Len(months)
    /\ LET built == generate_excel(session[s].all_data)
       IN  session' = [session EXCEPT ![s] =
              IF built.raised THEN RunFailed(@)
              ELSE [@ EXCEPT !.pc = "idle",
                             !.excel_file = <<built.sheet>>,
                             !.ui = Append(@, SuccessMessage),
                             !.download = <<built.sheet>>]]
    /\ UNCHANGED <<temp_key, connected, remote>>

\* l.162: the spreadsheet library raises while the report is built.
BuildReportRaises(s) ==
    /\ session[s].pc = "loop"
    /\ session[s].month_idx > Len(months)
    /\ session' = [session EXCEPT ![s] = RunFailed(@)]
    /\ UNCHANGED <<temp_key, connected, remote>>

\* ------------------------------------------------------- specifications
Next ==
    \/ \E s \in connected : RunWithoutSubmit(s)
    \/ \E s \in connected : SubmitMissingKey(s)
    \/ \E s \in connected : SubmitMissingProperty(s)
    \/ \E s \in connected : SubmitProceed(s)
    \/ \E s \in connected : OpenKeyFile(s)
    \/ \E s \in connected : OpenKeyFileRaises(s)
    \/ \E s \in connected : WriteKeyFile(s)
    \/ \E s \in connected : WriteKeyFileRaises(s)
    \/ \E s \in connected : ConstructClient(s)
    \/ \E s \in connected : ConstructClientRaises(s)
    \/ \E s \in connected : FetchMonth(s)
    \/ \E s \in connected : BuildReport(s)
    \/ \E s \in connected : BuildReportRaises(s)

\* One browser session against an arbitrary remote.
Init ==
    /\ connected = {1}
    /\ remote = "arbitrary"
    /\ temp_key = NoFile
    /\ session = [s \in Sessions |-> FreshRun(FALSE, None, "")]

Spec == Init /\ [][Next]_vars

\* Two browser sessions, whose script runs interleave, against the
\* per-account remote.
InitSessions ==
    /\ connected = Sessions
    /\ remote = "accounts"
    /\ temp_key = NoFile
    /\ session = [s \in Sessions |-> FreshRun(FALSE, None, "")]

SpecSessions == InitSessions /\ [][Next]_vars

\* generate_excel as a function of its argument: the run has reached the
\* call (l.162) with any table of at most MaxRecords records that the loop
\* can return: the records of some months, in the order of the months.
RecordValues == { <<100, 0, 100>>, <<150, 50, 100>>, <<0, 0, 0>>, <<7, -50, 3>> }

MonthLabels == [i \in 1..Len(months) |-> months[i].month]

\* The positions i of seq with i in keep, in order.
RECURSIVE Pick(_, _, _)
Pick(seq, keep, i) ==
    IF i > Len(seq) THEN <<>>
    ELSE (IF i \in keep THEN <<seq[i]>> ELSE <<>>) \o Pick(seq, keep, i + 1)

KeepSets(n) == { k \in SUBSET (1..Len(months)) : Cardinality(k) <= n }

\* The table of the months in keep, with vals[i] as the sums of its record i.
Table(keep, vals) ==
    LET labels == Pick(MonthLabels, keep, 1)
    IN  [i \in 1..Len(labels) |-> <<labels[i]>> \o vals[i]]

AtBuild(data) ==
    LET labels == { data[i][1] : i \in 1..Len(data) }
        missed == { i \in 1..Len(months) : months[i].month \notin labels }
    IN  [FreshRun(TRUE, "credA", "123456") EXCEPT
            !.pc        = "loop",
            !.branch    = "proceed",
            !.wrote     = TRUE,
            !.client    = "credA",
            !.requests  = [i \in 1..Len(months) |-> DateRange(months[i])],
            !.month_idx = Len(months) + 1,
            !.all_data  = data,
            !.failed    = { months[i].month : i \in missed },
            !.ui        = [i \in 1..Cardinality(missed) |->
                              FetchErrorMessage(Pick(months, missed, 1)[i])]]

InitExcel ==
    /\ connected = {1}
    /\ remote = "arbitrary"
    /\ temp_key = "credA"
    /\ \E keep \in KeepSets(MaxRecords) :
          \E vals \in [1..Cardinality(keep) -> RecordValues] :
             session = [s \in Sessions |->
                           IF s = 1 THEN AtBuild(Table(keep, vals))
                           ELSE FreshRun(FALSE, None, "")]

NextExcel == \E s \in connected : BuildReport(s)

SpecExcel == InitExcel /\ [][NextExcel]_vars

\* ============================================== properties of the fetch
Labels(data) == [i \in 1..Len(data) |-> data[i][1]]

\* The fetch loop of session s has been entered.
InFetch(s) == session[s].client # None

\* fetch_ga4_data of session s has returned.
Returned(s) == InFetch(s) /\ session[s].pc = "idle"

AllWindows == [i \in 1..Len(months) |-> DateRange(months[i])]

\* C1: fetch_ga4_data is best-effort per month.  At every point of the loop
\* the table holds exactly one record for each window attempted so far that
\* did not fail and none for a window that failed (the call raised, or a row
\* could not be summed, also after earlier rows were summed), in the order
\* of the months list; a request was sent for every window up to the current
\* one, and when the function has returned every window has been attempted.
C1_BestEffortPerMonth ==
    \A s \in connected :
        InFetch(s) =>
            LET r    == session[s]
                done == r.month_idx - 1
            IN  /\ done \in 0..Len(months)
                /\ r.requests = SubSeq(AllWindows, 1, done)
                /\ Labels(r.all_data) =
                      SelectSeq(SubSeq(MonthLabels, 1, done),
                                LAMBDA l : l \notin r.failed)
                /\ \A l \in r.failed :
                      \A i \in 1..Len(r.all_data) : r.all_data[i][1] # l
                /\ Returned(s) => r.requests = AllWindows

\* A returned fetch in which June's call or summation failed and December's
\* summation failed after a row was summed, with the seven other months
\* recorded.
C1_Witness ==
    \E s \in connected :
        /\ Returned(s)
        /\ session[s].failed = {"Jun", "Dec"}
        /\ session[s].response.rows = <<RowA, RowBad>>
        /\ session[s].totals = <<17, 8, 5>>
        /\ Labels(session[s].all_data) =
              <<"Apr", "May", "Jul", "Aug", "Sep", "Oct", "Nov">>

\* C2 as stated: twelve windows are attempted per run, and a run in which
\* exactly one month errors returns eleven records.
C2_TwelveWindows ==
    \A s \in connected :
        Returned(s) =>
            /\ Len(session[s].requests) = 12
            /\ Cardinality(session[s].failed) = 1 => Len(session[s].all_data) = 11

\* C2 (amended): fetch attempts nine fixed month windows per run (April to
\* December 2024): it returns only after all nine have been attempted, and
\* when exactly one month errors it returns eight records, omitting the
\* errored month and keeping the other eight in chronological order.
C2_NineWindows ==
    \A s \in connected :
        Returned(s) =>
            LET r == session[s]
            IN  /\ Len(r.requests) = 9
                /\ r.requests = AllWindows
                /\ Cardinality(r.failed) = 1 =>
                      /\ Len(r.all_data) = 8
                      /\ Labels(r.all_data) =
                            SelectSeq(MonthLabels, LAMBDA l : l \notin r.failed)

\* A returned fetch in which only August errored.
C2_Witness ==
    \E s \in connected :
        /\ Returned(s)
        /\ session[s].failed = {"Aug"}
        /\ Labels(session[s].all_data) =
              <<"Apr", "May", "Jun", "Jul", "Sep", "Oct", "Nov", "Dec">>

\* The sum of metric j over the rows of a reply.
RECURSIVE ColumnSum(_, _)
ColumnSum(rows, j) ==
    IF rows = <<>> THEN 0
    ELSE IntParse(Head(rows)[j]).value + ColumnSum(Tail(rows), j)

\* The month just attempted by session s was recorded.
LastMonthRecorded(s) ==
    LET r == session[s]
    IN  /\ InFetch(s)
        /\ r.month_idx > 1
        /\ r.all_data # <<>>
        /\ r.all_data[Len(r.all_data)][1] = months[r.month_idx - 1].month

\* C3: the record appended for a month whose query succeeded holds, for each
\* of the three metrics, the sum of that metric over the rows returned for
\* that month and nothing of the month before; zero rows give a record of
\* three zeros, and the rows (10,8,5),(20,15,9) give (30,23,14).
C3_RecordIsSumOfRows ==
    \A s \in connected :
        LastMonthRecorded(s) =>
            LET r    == session[s]
                rec  == r.all_data[Len(r.all_data)]
                rows == r.response.rows
            IN  /\ r.response.kind = "rows"
                /\ rec = <<months[r.month_idx - 1].month,
                           ColumnSum(rows, 1), ColumnSum(rows, 2), ColumnSum(rows, 3)>>
                /\ rows = <<>> => SubSeq(rec, 2, 4) = <<0, 0, 0>>
                /\ rows = <<RowA, RowB>> => SubSeq(rec, 2, 4) = <<30, 23, 14>>

\* Three months in a row recorded: the example rows twice, then no rows.
C3_Witness ==
    \E s \in connected :
        /\ LastMonthRecorded(s)
        /\ session[s].response.rows = <<>>
        /\ Len(session[s].all_data) = 3
        /\ session[s].all_data = << <<"Apr", 30, 23, 14>>, <<"May", 30, 23, 14>>,
                                    <<"Jun", 0, 0, 0>> >>

\* ------------------------------------------- properties of the report
Data(s)  == session[s].all_data
Built(s) == session[s].download # <<>>
Cells(s) == session[s].download[1].cells

\* The script of session s has run to its end through the else arm.
RunEnded(s) == session[s].pc = "idle" /\ session[s].branch = "proceed"

\* The sign of (current - previous) / previous * 100, with the zero guard.
ExpectedType(p, c) == IF p # 0 /\ (c - p) * p > 0 THEN "improvement" ELSE "drop"

\* h hundredths is |(c - p) / p * 100| to within half a hundredth; 0 when p = 0.
ExpectedMagnitude(h, p, c) ==
    IF p = 0 THEN h = 0
    ELSE 2 * Abs(h * Abs(p) - 10000 * Abs(c - p)) <= Abs(p)

\* The coloured phrase of the insight of metric i in the sheet of session s.
Phrase(s, i) == Cells(s)[<<Len(Data(s)) + 1 + i, 0>>].value[2]

\* C4: for each metric of the insights block the percentage is
\* (current - previous) / previous * 100 when previous is not 0 and 0 when it
\* is (no division error ends the build); the phrase says "improvement"
\* exactly when the percentage is above 0 and "drop" otherwise, in green for
\* an improvement and red for a drop; 100 -> 150 is an improvement of 50.00,
\* 0 -> 50 a drop of 0.00, 100 -> 100 a drop of 0.00.
C4_PercentageAndClass ==
    \A s \in connected :
        /\ RunEnded(s) => Built(s)
        /\ (Built(s) /\ Len(Data(s)) >= 2) =>
              \A i \in 1..3 :
                 LET n    == Len(Data(s))
                     p    == Data(s)[n - 1][i + 1]
                     c    == Data(s)[n][i + 1]
                     ph   == Phrase(s, i)
                     type == ph.text[1]
                     h    == ph.text[3][1] * 100 + ph.text[3][2]
                 IN  /\ type = ExpectedType(p, c)
                     /\ ExpectedMagnitude(h, p, c)
                     /\ type = "improvement" <=> ph.format.font_color = "darkgreen"
                     /\ type = "drop" <=> ph.format.font_color = "red"
                     /\ (p = 100 /\ c = 150) => (type = "improvement" /\ h = 5000)
                     /\ (p = 0 /\ c = 50) => (type = "drop" /\ h = 0)
                     /\ (p = 100 /\ c = 100) => (type = "drop" /\ h = 0)

\* A built sheet comparing (100, 0, 100) with (150, 50, 100): the three
\* worked examples, one per metric.
C4_Witness ==
    \E s \in connected :
        /\ Built(s)
        /\ Len(Data(s)) >= 2
        /\ SubSeq(Data(s)[Len(Data(s)) - 1], 2, 4) = <<100, 0, 100>>
        /\ SubSeq(Data(s)[Len(Data(s))], 2, 4) = <<150, 50, 100>>

RichCells(s) == { q \in DOMAIN Cells(s) : Cells(s)[q].rich }

\* C5: generate_excel writes an insights block if and only if the table has
\* at least two records.  With zero or one record it completes without error
\* and the sheet holds the header and data rows only; with two or more it
\* holds exactly three insight lines, one per metric (Sessions, Engaged
\* Sessions, Users), each comparing the last record with the one before it
\* and naming the month labels of those two records.
C5_InsightsIffTwoRecords ==
    \A s \in connected :
        /\ RunEnded(s) => Built(s)
        /\ Built(s) =>
              LET n == Len(Data(s))
              IN  /\ (RichCells(s) # {}) <=> (n >= 2)
                  /\ n < 2 => DOMAIN Cells(s) = (0..n) \X (0..3)
                  /\ n >= 2 =>
                        /\ Cardinality(RichCells(s)) = 3
                        /\ \A i \in 1..3 :
                              \E q \in RichCells(s) :
                                 /\ Cells(s)[q].value[3].text =
                                       <<" in ", headers[i + 1], " in ", Data(s)[n][1],
                                         " compared to ", Data(s)[n - 1][1], ".">>
                                 /\ Cells(s)[q].value[2].text[1] =
                                       ExpectedType(Data(s)[n - 1][i + 1], Data(s)[n][i + 1])

\* A built sheet of a table whose two records are April and December, the
\* months between them having failed.
C5_Witness ==
    \E s \in connected :
        /\ Built(s)
        /\ Labels(Data(s)) = <<"Apr", "Dec">>
        /\ Cardinality(RichCells(s)) = 3
        /\ Cardinality(session[s].failed) = 7

\* The cell at (r, 0) is the header line of the insight block.
IsTitle(s, r) ==
    LET n == Len(Data(s))
    IN  /\ <<r, 0>> \in DOMAIN Cells(s)
        /\ Cells(s)[<<r, 0>>].format = insight_header_format
        /\ Cells(s)[<<r, 0>>].value =
              <<"Highlights - ", Data(s)[n][1], "'24 vs ", Data(s)[n - 1][1], "'24">>

\* The cell at (r, 0) is an insight line.
IsInsight(s, r) == <<r, 0>> \in RichCells(s)

\* Row r holds record r of the table.
IsDataRow(s, r) ==
    \A c \in 0..3 :
        /\ <<r, c>> \in DOMAIN Cells(s)
        /\ Cells(s)[<<r, c>>].format = content_format
        /\ ~Cells(s)[<<r, c>>].rich
        /\ Cells(s)[<<r, c>>].value = Data(s)[r][c + 1]

RowsOf(s) == { q[1] : q \in DOMAIN Cells(s) }

\* C6 as stated: one blank row separates the last data row from the insight
\* block: the row below the data is empty, the header line follows it and
\* the three insight lines follow the header line.
C6_BlankRowBelowData ==
    \A s \in connected :
        (Built(s) /\ Len(Data(s)) >= 2) =>
            LET n == Len(Data(s))
            IN  /\ (n + 1) \notin RowsOf(s)
                /\ IsTitle(s, n + 2)
                /\ \A i \in 1..3 : IsInsight(s, n + 2 + i)
                /\ \A r \in 1..n : IsDataRow(s, r)

\* C6 (amended): for every table with N >= 2 records the header line naming
\* the two months is written in the row immediately below the last data row,
\* with no blank row between, and the three insight lines in the three rows
\* immediately below the header line; no row of the insight block overlaps a
\* data row.
C6_BlockBelowData ==
    \A s \in connected :
        (Built(s) /\ Len(Data(s)) >= 2) =>
            LET n == Len(Data(s))
            IN  /\ IsTitle(s, n + 1)
                /\ \A i \in 1..3 : IsInsight(s, n + 1 + i)
                /\ \A r \in 1..n : IsDataRow(s, r)
                /\ \A q \in DOMAIN Cells(s) :
                      (Cells(s)[q].rich \/ Cells(s)[q].format = insight_header_format)
                         => q[1] > n

\* A built sheet of three records: header line in row 4, lines in rows 5-7.
C6_Witness ==
    \E s \in connected :
        /\ Built(s)
        /\ Len(Data(s)) = 3
        /\ IsTitle(s, 4)
        /\ IsInsight(s, 7)

\* C7 as stated: a table of N records gives a sheet of 1 header row, N data
\* rows and 0 or 3 insight-related rows.
C7_ThreeInsightRows ==
    \A s \in connected :
        Built(s) =>
            Cardinality(RowsOf(s)) \in {1 + Len(Data(s)), 1 + Len(Data(s)) + 3}

\* C7 (amended): a table of N records gives a sheet of exactly 1 header row,
\* then the N data rows in table order, then 0 insight-related rows (N < 2)
\* or 4 (N >= 2): the header line of the block and the three insight lines.
C7_RowCount ==
    \A s \in connected :
        Built(s) =>
            LET n == Len(Data(s))
                k == IF n >= 2 THEN 4 ELSE 0
            IN  /\ RowsOf(s) = 0..(n + k)
                /\ Cardinality(RowsOf(s)) = 1 + n + k
                /\ \A c \in 0..3 :
                      /\ Cells(s)[<<0, c>>].format = header_format
                      /\ Cells(s)[<<0, c>>].value = headers[c + 1]
                /\ \A r \in 1..n : IsDataRow(s, r)
                /\ n >= 2 => (IsTitle(s, n + 1) /\ \A r \in (n + 2)..(n + 4) : IsInsight(s, r))

\* A built sheet of two records: seven rows.
C7_Witness ==
    \E s \in connected :
        /\ Built(s)
        /\ Len(Data(s)) = 2
        /\ RowsOf(s) = 0..6

\* --------------------------------------- properties of the main logic
RunErrorCount(r)  == Cardinality({ i \in 1..Len(r.ui) : r.ui[i] = RunErrorMessage })
SuccessShown(r)   == \E i \in 1..Len(r.ui) : r.ui[i] = SuccessMessage

\* C8: on a submit exactly one of three arms runs: key file missing -> the
\* key error message; key file present and property id empty -> the property
\* error message; both present -> the run proceeds to the fetch.  In the two
\* missing-input arms the run ends with that one message, before the scratch
\* file is written and before any remote call, and no download is offered;
\* without a submit none of the three arms runs.
C8_ThreeBranches ==
    \A s \in connected :
        LET r == session[s]
        IN  /\ r.branch = "no_key" <=> (r.generate_button /\ r.key_file = None)
            /\ r.branch = "no_property" <=>
                  (r.generate_button /\ r.key_file # None /\ r.property_id = "")
            /\ r.branch = "proceed" <=>
                  (r.generate_button /\ r.key_file # None /\ r.property_id # "")
            /\ r.branch = "none" <=> ~r.generate_button
            /\ r.branch = "no_key" => r.ui = <<KeyErrorMessage>>
            /\ r.branch = "no_property" => r.ui = <<PropertyErrorMessage>>
            /\ r.branch = "none" => r.ui = <<>>
            /\ r.branch # "proceed" =>
                  /\ r.pc = "idle"
                  /\ ~r.wrote
                  /\ r.client = None
                  /\ r.requests = <<>>
                  /\ r.download = <<>>

\* A submit with a key file and an empty property id, after an earlier run
\* of the session left its key in the scratch file.
C8_Witness ==
    \E s \in connected :
        /\ session[s].branch = "no_property"
        /\ session[s].key_file = "credA"
        /\ session[s].ui = <<PropertyErrorMessage>>
        /\ temp_key = "credA"

\* C9: the download is offered only after a successful run: when the write
\* of the key file, the construction of the client or the building of the
\* report raises, one run error message is shown, last, and the run ends
\* with no download; a run that got through the loop without such an
\* exception reports success and offers the sheet built from its table,
\* whatever months failed, also when all of them did and the table is empty.
C9_DownloadOnlyAfterSuccess ==
    \A s \in connected :
        LET r == session[s]
        IN  /\ r.download # <<>> =>
                  /\ RunEnded(s) /\ Returned(s)
                  /\ RunErrorCount(r) = 0
                  /\ r.ui[Len(r.ui)] = SuccessMessage
                  /\ r.download = r.excel_file
                  /\ r.download[1] = generate_excel(r.all_data).sheet
            /\ RunErrorCount(r) <= 1
            /\ RunErrorCount(r) = 1 =>
                  /\ r.pc = "idle"
                  /\ r.ui[Len(r.ui)] = RunErrorMessage
                  /\ ~SuccessShown(r)
                  /\ r.download = <<>>
            /\ RunEnded(s) => (RunErrorCount(r) = 1) # (r.download # <<>>)
            /\ SuccessShown(r) => r.download # <<>>

\* A run in which all nine months failed: nine month errors, then success
\* and a download holding the header row only.
C9_Witness ==
    \E s \in connected :
        /\ Returned(s)
        /\ Cardinality(session[s].failed) = 9
        /\ session[s].all_data = <<>>
        /\ Len(session[s].ui) = 10
        /\ session[s].download # <<>>
        /\ RowsOf(s) = {0}

\* C10: each run is independent: under any interleaving of the runs of two
\* sessions, the client of a run is built from the key that run uploaded.
C10_OwnCredential ==
    \A s \in connected :
        session[s].client # None => session[s].client = session[s].key_file

====
